---------------------------- MODULE Spec2Model ----------------------------
(* A model of dashboard.py (ECOv2 Stability Data Analysis): the helpers     *)
(* ensure_columns, add_run_index and keep_latest_run_only as operators on   *)
(* frames (sequences of rows, a row being a record of its columns), and the *)
(* two Dash callbacks load_csv and update_plot as actions over the page's   *)
(* components (data-store, compare-serials, metric-dropdown, top-n, plot,   *)
(* run-label, compare-warning, stats-table) and the file data.csv.          *)
(* The Timestamp column is left out: nothing below reads it.                *)
EXTENDS Integers, Sequences, FiniteSets, TLC

VARIABLES
    data_store,       \* dcc.Store "data-store": the JSON written by load_csv, or none
    options,          \* "compare-serials".options
    disk,             \* the file data.csv
    compare_serials,  \* "compare-serials".value, in the order the user picked
    metric,           \* "metric-dropdown".value
    top_n,            \* "top-n".value
    fig,              \* "plot".figure
    label,            \* "run-label".children
    warning,          \* "compare-warning".children
    stats_table,      \* "stats-table".data
    pending,          \* an input of update_plot changed and the callback has not run yet
    upload,           \* the latest call of load_csv: its contents and how it ended
    accepted,         \* the contents of the latest call of load_csv that returned
    stage,            \* position of the helper pipeline (specifications SpecRun, SpecFilter)
    raw,              \* the parsed CSV the pipeline started from
    df,               \* the run-indexed frame
    latest,           \* keep_latest_run_only(df)
    twice             \* keep_latest_run_only(latest)

dash_vars == <<data_store, options, disk, compare_serials, metric, top_n, fig,
               label, warning, stats_table, pending, upload, accepted>>
pipe_vars == <<stage, raw, df, latest, twice>>
vars == <<dash_vars, pipe_vars>>

-----------------------------------------------------------------------------
(* Bounds of the model.                                                     *)

\* longest CSV (in rows) the pipeline specifications draw
MaxRows == 3
\* longest CSV (in rows) uploaded to the dashboard
MaxUploadRows == 2
\* most devices the user has picked in the comparator at once
MaxSelected == 2

-----------------------------------------------------------------------------
(* Values.                                                                  *)

\* pandas' missing value (NaN, <NA>, JSON null). Every number drawn below is
\* >= 0 and every difference of two of them is > NaN.
NaN == -1000

\* what the library may leave in an output cell it does not compute: the
\* content of the allocated cell, never written, or a missing value
Uninitialised == {0, 1, NaN}

isna(v) == v = NaN
notna(v) == v # NaN

METRICS == <<"HGO", "LGO", "LTC", "RAW", "VMain">>

\* px.colors.qualitative.Plotly
COLOR_POOL == <<"#636EFA", "#EF553B", "#00CC96", "#AB63FA", "#FFA15A",
                "#19D3F3", "#FF6692", "#B6E880", "#FF97FF", "#FECB52">>

Range(s) == {s[i] : i \in 1..Len(s)}

\* the text of a cell that pd.to_numeric parses, with its value
Numeral == ("0" :> 0) @@ ("1" :> 1) @@ ("2" :> 2) @@ ("3" :> 3)

\* pd.to_numeric(..., errors="coerce") on one cell
to_numeric(cell) == IF cell \in DOMAIN Numeral THEN Numeral[cell] ELSE NaN

\* .astype(str).str.strip() on one cell
Stripped == ("A" :> "A") @@ (" A" :> "A") @@ ("B" :> "B") @@ ("B " :> "B")
            @@ ("7" :> "7")
strip(cell) == Stripped[cell]

\* what read_json makes of a column of strings that all parse as numbers:
\* the int64 value, written here so that it differs from the string
ParsedInt == ("7" :> "int64(7)")

\* Python's order on the identifiers: strings by code point, int64 by value
Rank == ("7" :> 1) @@ ("A" :> 2) @@ ("B" :> 3) @@ ("int64(7)" :> 4)

-----------------------------------------------------------------------------
(* Frames. A frame is a sequence of rows in frame order; a row is a record  *)
(* of its columns plus "index", the row's label in the DataFrame's index.   *)

\* df[mask]: the rows of a frame at the positions a boolean column marks
Mask(f, mask) ==
    LET pos == SelectSeq([i \in 1..Len(f) |-> i], LAMBDA i : mask[i])
    IN  [k \in 1..Len(pos) |-> f[pos[k]]]

\* parse_uploaded_csv: the decoded CSV as a frame with a RangeIndex
parse_uploaded_csv(contents) ==
    [columns |-> contents.columns,
     rows    |-> [i \in 1..Len(contents.rows) |->
                     [index |-> i - 1] @@ contents.rows[i]]]

\* how ensure_columns ends on a parsed CSV: the ValueError of line 38, the
\* KeyError of df["Channel"] / df["SampleCount"], or a return
ensure_columns_raises(parsed) ==
    IF "SerialNumber" \notin parsed.columns THEN "ValueError"
    ELSE IF "Channel" \notin parsed.columns THEN "KeyError"
    ELSE IF "SampleCount" \notin parsed.columns THEN "KeyError"
    ELSE "none"

\* ensure_columns, when it returns
ensure_columns(parsed) ==
    [i \in 1..Len(parsed.rows) |->
        LET r == parsed.rows[i]
        IN  [SerialID    |-> strip(r.SerialNumber),
             Channel     |-> to_numeric(r.Channel),
             SampleCount |-> to_numeric(r.SampleCount),
             X           |-> to_numeric(r.SampleCount)] @@ r]

\* the order of one sort key, missing values last
KeyLess(a, b) == IF isna(a) THEN FALSE ELSE IF isna(b) THEN TRUE ELSE a < b

\* the order of sort_values(["SerialID", "Channel", "X"])
RowLess(a, b) ==
    \/ Rank[a.SerialID] < Rank[b.SerialID]
    \/ /\ a.SerialID = b.SerialID
       /\ \/ KeyLess(a.Channel, b.Channel)
          \/ a.Channel = b.Channel /\ KeyLess(a.X, b.X)

\* kind="mergesort": rows that compare equal keep their relative order
RECURSIVE sort_values(_)
sort_values(f) ==
    IF f = <<>> THEN <<>>
    ELSE LET s == sort_values(SubSeq(f, 1, Len(f) - 1))
             r == f[Len(f)]
             k == Cardinality({i \in 1..Len(s) : ~RowLess(r, s[i])})
         IN  SubSeq(s, 1, k) \o <<r>> \o SubSeq(s, k + 1, Len(s))

\* groupby(["SerialID", "Channel"]) leaves out the rows with a missing key
\* (dropna=True); SerialID is a string and never missing
dropped(r) == isna(r.Channel)
same_group(a, b) ==
    ~dropped(a) /\ ~dropped(b) /\ a.SerialID = b.SerialID /\ a.Channel = b.Channel

\* the labels of the rows groupby leaves out
dropped_index(f) == {f[i].index : i \in {j \in 1..Len(f) : dropped(f[j])}}

\* groupby(...)["X"].diff(): X minus the X of the previous row of the group
diff(s) ==
    [i \in 1..Len(s) |->
        LET before == {j \in 1..(i - 1) : same_group(s[j], s[i])}
        IN  IF before = {} THEN NaN
            ELSE LET p == CHOOSE j \in before : \A m \in before : m <= j
                 IN  IF isna(s[i].X) \/ isna(s[p].X) THEN NaN
                     ELSE s[i].X - s[p].X]

fillna(d, v) == [i \in DOMAIN d |-> IF isna(d[i]) THEN v ELSE d[i]]

lt(d, v) == [i \in DOMAIN d |-> d[i] < v]

\* .groupby([df["SerialID"], df["Channel"]]).cumsum() of a boolean column;
\* a row groupby leaves out gets no value written: unwritten[label] is what
\* its cell of the output holds
cumsum(s, b, unwritten) ==
    [i \in 1..Len(s) |->
        IF dropped(s[i]) THEN unwritten[s[i].index]
        ELSE Cardinality({j \in 1..i : same_group(s[j], s[i]) /\ b[j]})]

add_run_index(f, unwritten) ==
    LET s   == sort_values(f)
        run == cumsum(s, lt(fillna(diff(s), 1), 0), unwritten)
    IN  [i \in 1..Len(s) |-> [RunIndex |-> run[i]] @@ s[i]]

Max(S) == CHOOSE m \in S : \A n \in S : n <= m

\* groupby(["SerialID", "Channel"])["RunIndex"].transform("max")
transform_max(f) ==
    [i \in 1..Len(f) |->
        LET runs == {f[j].RunIndex : j \in {m \in 1..Len(f) :
                        same_group(f[m], f[i]) /\ notna(f[m].RunIndex)}}
        IN  IF runs = {} THEN NaN ELSE Max(runs)]

\* == on two cells: NaN equals nothing
eq(a, b) == notna(a) /\ notna(b) /\ a = b

\* the comparison of line 74 written != : the rows of the latest run are the
\* ones dropped (NaN differs from everything)
keep_latest_run_only_ne(f) ==
    LET high == transform_max(f)
    IN  Mask(f, [i \in 1..Len(f) |-> ~eq(f[i].RunIndex, high[i])])

keep_latest_run_only(f) ==
    LET high == transform_max(f)
    IN  Mask(f, [i \in 1..Len(f) |-> eq(f[i].RunIndex, high[i])])

-----------------------------------------------------------------------------
(* Inputs.                                                                  *)

AllColumns == {"SerialNumber", "Channel", "SampleCount"} \cup Range(METRICS)

\* sequences over S of length at most n
SeqUpTo(S, n) == UNION {[1..k -> S] : k \in 0..n}

\* the metric cells of a CSV row: RAW measured, the other metrics empty
Measured(v) == [m \in Range(METRICS) |-> IF m = "RAW" THEN v ELSE NaN]

\* the x values of the example dataset, in upload order
ExampleX == <<"1", "2", "3", "1", "2">>

\* CSV rows the pipeline specifications draw: two devices, a channel that
\* parses and one that does not, sample counts that parse and one that does not
PipelineRows ==
    {[SerialNumber |-> sn, Channel |-> ch, SampleCount |-> sc] @@ Measured(1) :
        sn \in {"A", "B "}, ch \in {"1", "x"}, sc \in {"1", "2", "bad"}}

\* one device, one channel, any x values of the example in any order
ExampleRows ==
    {[SerialNumber |-> "A", Channel |-> "1", SampleCount |-> sc] @@ Measured(1) :
        sc \in Range(ExampleX)}

PipelineInputs ==
    {[columns |-> AllColumns, rows |-> rows] :
        rows \in SeqUpTo(PipelineRows, MaxRows)
                 \cup [1..Len(ExampleX) -> ExampleRows]}

\* run-indexed frames keep_latest_run_only is applied to directly
IndexedRows ==
    [SerialID : {"A", "B"}, Channel : {1, NaN}, X : {1}, RunIndex : {0, 1, 2}]

IndexedInputs ==
    {[i \in 1..Len(rows) |-> [index |-> i - 1] @@ rows[i]] :
        rows \in SeqUpTo(IndexedRows, MaxRows)}

NoCsv == [columns |-> {}, rows |-> <<>>]
NoStore == [present |-> FALSE, index |-> <<>>, data |-> <<>>]
NoFile == [exists |-> FALSE, rows |-> <<>>]
NoFigure == [kind |-> "none", traces |-> <<>>]
NoLabel == [text |-> "", n |-> 0]
NoUpload == [contents |-> NoCsv, outcome |-> "none"]

\* the page as served, before any callback ran
DashInit ==
    /\ data_store = NoStore
    /\ options = <<>>
    /\ disk = NoFile
    /\ compare_serials = <<>>
    /\ metric = "RAW"
    /\ top_n = 100
    /\ fig = NoFigure
    /\ label = NoLabel
    /\ warning = <<>>
    /\ stats_table = <<>>
    /\ pending = TRUE
    /\ upload = NoUpload
    /\ accepted = NoCsv

PipeIdle ==
    /\ stage = "idle"
    /\ raw = NoCsv
    /\ df = <<>>
    /\ latest = <<>>
    /\ twice = <<>>

-----------------------------------------------------------------------------
(* The helper pipeline, one helper per step.                                *)

\* load_csv's lines 154-156 on a parsed CSV
Segment ==
    /\ stage = "parsed"
    /\ ensure_columns_raises(parse_uploaded_csv(raw)) = "none"
    /\ LET f == ensure_columns(parse_uploaded_csv(raw))
       IN  \E unwritten \in [dropped_index(f) -> Uninitialised] :
               df' = add_run_index(f, unwritten)
    /\ stage' = "indexed"
    /\ UNCHANGED <<raw, latest, twice, dash_vars>>

\* update_plot's line 180
Filter ==
    /\ stage = "indexed"
    /\ latest' = keep_latest_run_only(df)
    /\ stage' = "latest"
    /\ UNCHANGED <<raw, df, twice, dash_vars>>

\* keep_latest_run_only applied to its own result
FilterAgain ==
    /\ stage = "latest"
    /\ twice' = keep_latest_run_only(latest)
    /\ stage' = "twice"
    /\ UNCHANGED <<raw, df, latest, dash_vars>>

InitRun ==
    /\ DashInit
    /\ stage = "parsed"
    /\ raw \in PipelineInputs
    /\ df = <<>>
    /\ latest = <<>>
    /\ twice = <<>>

NextRun == Segment \/ Filter \/ FilterAgain

SpecRun == InitRun /\ [][NextRun]_vars

InitFilter ==
    /\ DashInit
    /\ stage = "indexed"
    /\ raw = NoCsv
    /\ df \in IndexedInputs
    /\ latest = <<>>
    /\ twice = <<>>

NextFilter == Filter \/ FilterAgain

SpecFilter == InitFilter /\ [][NextFilter]_vars

-----------------------------------------------------------------------------
(* The callbacks.                                                           *)

\* a row without one of its columns
Without(r, c) == [k \in (DOMAIN r) \ {c} |-> r[k]]

\* df.to_json(orient="split"): the index labels and the rows, side by side
to_json(f) ==
    [present |-> TRUE,
     index   |-> [i \in 1..Len(f) |-> f[i].index],
     data    |-> [i \in 1..Len(f) |-> Without(f[i], "index")]]

\* df.to_csv(DATA_CSV, index=False)
to_csv(f) ==
    [exists |-> TRUE, rows |-> [i \in 1..Len(f) |-> Without(f[i], "index")]]

\* read_json's dtype inference on a column of strings: a non-empty column whose
\* every cell parses as a number comes back as int64, any other as it was
infer_dtype(cells, cell) ==
    IF cells # {} /\ cells \subseteq DOMAIN ParsedInt THEN ParsedInt[cell] ELSE cell

\* pd.read_json(data, orient="split")
read_json(data) ==
    LET col(c) == {data.data[i][c] : i \in 1..Len(data.data)}
    IN  [i \in 1..Len(data.data) |->
            [index        |-> data.index[i],
             SerialNumber |-> infer_dtype(col("SerialNumber"),
                                          data.data[i].SerialNumber),
             SerialID     |-> infer_dtype(col("SerialID"), data.data[i].SerialID)]
            @@ data.data[i]]

\* sorted(...) of a set of identifiers
sorted(S) ==
    [i \in 1..Cardinality(S) |->
        CHOOSE v \in S : Cardinality({w \in S : Rank[w] < Rank[v]}) = i - 1]

\* df["SerialID"].unique()
unique_serials(f) == {f[i].SerialID : i \in 1..Len(f)}

\* [{"label": s, "value": s} for s in serials]
dropdown_options(serials) ==
    [i \in 1..Len(serials) |-> [label |-> serials[i], value |-> serials[i]]]

\* the values the output cells of the rows groupby leaves out may hold
Unwritten(contents) ==
    IF ensure_columns_raises(parse_uploaded_csv(contents)) # "none" THEN {<<>>}
    ELSE [dropped_index(ensure_columns(parse_uploaded_csv(contents)))
             -> Uninitialised]

\* load_csv with the file written before the columns are checked
load_csv_write_first(contents, unwritten) ==
    LET parsed == parse_uploaded_csv(contents)
        raised == ensure_columns_raises(parsed)
    IN  IF raised # "none"
        THEN [raised |-> raised, data |-> data_store, options |-> options,
              file |-> to_csv(parsed.rows)]
        ELSE LET f == add_run_index(ensure_columns(parsed), unwritten)
             IN  [raised  |-> "none",
                  data    |-> to_json(f),
                  options |-> dropdown_options(sorted(unique_serials(f))),
                  file    |-> to_csv(f)]

\* load_csv with to_csv left out
load_csv_no_file(contents, unwritten) ==
    LET parsed == parse_uploaded_csv(contents)
        raised == ensure_columns_raises(parsed)
    IN  IF raised # "none"
        THEN [raised |-> raised, data |-> data_store, options |-> options,
              file |-> disk]
        ELSE LET f == add_run_index(ensure_columns(parsed), unwritten)
             IN  [raised  |-> "none",
                  data    |-> to_json(f),
                  options |-> dropdown_options(sorted(unique_serials(f))),
                  file    |-> disk]

\* load_csv: what it raised and what the outputs and data.csv hold after it.
\* A callback that raises updates no output.
load_csv(contents, unwritten) ==
    LET parsed == parse_uploaded_csv(contents)
        raised == ensure_columns_raises(parsed)
    IN  IF raised # "none"
        THEN [raised |-> raised, data |-> data_store, options |-> options,
              file |-> disk]
        ELSE LET f == add_run_index(ensure_columns(parsed), unwritten)
             IN  [raised  |-> "none",
                  data    |-> to_json(f),
                  options |-> dropdown_options(sorted(unique_serials(f))),
                  file    |-> to_csv(f)]

\* px.line()
px_line == [kind |-> "empty", traces |-> <<>>]

\* a column of a frame
column(g, c) == [i \in 1..Len(g) |-> g[i][c]]

RECURSIVE Sum(_)
Sum(q) == IF q = <<>> THEN 0 ELSE q[1] + Sum(Tail(q))

Min(S) == CHOOSE m \in S : \A n \in S : m <= n

\* the observations of a column (missing values skipped): how many, their sum
\* and the sum of their squares. mean() is sum / n, missing when n = 0;
\* std(ddof=1) is sqrt((ss - sum * sum / n) / (n - 1)), missing when n < 2.
observed(y) ==
    LET seen == SelectSeq(y, notna)
    IN  [n   |-> Len(seen),
         sum |-> Sum(seen),
         ss  |-> Sum([i \in 1..Len(seen) |-> seen[i] * seen[i]])]

\* std computed with ddof=0: defined from one observation on
std_notna_ddof0(y) == observed(y).n >= 1

std_notna(y) == observed(y).n >= 2

\* the height mean + sigmas * std of a reference line
level(y, sigmas) == [sigmas |-> sigmas] @@ observed(y)

\* color_map over sorted(serials): the palette entry follows the identifier's
\* rank among the plotted ones, not the position it was picked at
color_map_sorted(serials) ==
    [i \in 1..Len(serials) |->
        COLOR_POOL[(Cardinality({j \in 1..Len(serials) :
                        Rank[serials[j]] < Rank[serials[i]]})
                    % Len(COLOR_POOL)) + 1]]

\* color_map of line 212, by position in serials
color_map(serials) ==
    [i \in 1..Len(serials) |-> COLOR_POOL[((i - 1) % Len(COLOR_POOL)) + 1]]

\* the body of the loop of lines 215-267 for the device at position i of
\* serials: the traces it adds to panel row_idx
device_traces(row_df, row_idx, serials, i, m) ==
    LET s   == serials[i]
        g   == Mask(row_df, [k \in 1..Len(row_df) |-> row_df[k].SerialID = s])
        col == color_map(serials)[i]
        y   == column(g, m)
        xs  == Range(column(g, "X"))
        line(name, dash, legend, sigmas) ==
            [row |-> row_idx, name |-> name, color |-> col, dash |-> dash,
             showlegend |-> legend, x |-> <<Min(xs), Max(xs)>>,
             y |-> <<level(y, sigmas), level(y, sigmas)>>]
    IN  IF g = <<>> THEN <<>>
        ELSE <<[row |-> row_idx, name |-> <<s>>, color |-> col,
                dash |-> "solid", showlegend |-> (row_idx = 1),
                x |-> column(g, "X"), y |-> y],
               line(<<s, "(mean)">>, "dash", row_idx = 1, 0)>>
             \o (IF std_notna(y)
                 THEN <<line(<<>>, "dot", FALSE, 1), line(<<>>, "dot", FALSE, -1)>>
                 ELSE <<>>)

\* the inner loop, for s in serials, from position i on
RECURSIVE panel_traces(_, _, _, _, _)
panel_traces(row_df, row_idx, serials, i, m) ==
    IF i > Len(serials) THEN <<>>
    ELSE device_traces(row_df, row_idx, serials, i, m)
         \o panel_traces(row_df, row_idx, serials, i + 1, m)

\* update_plot: the figure, the label and the warning it returns; the warning
\* is the list joined after "No data for: ", empty for the empty string
update_plot(data, m, selected, n) ==
    IF ~data.present
    THEN [fig |-> px_line, label |-> NoLabel, warning |-> <<>>]
    ELSE
    LET f           == keep_latest_run_only(read_json(data))
        all_serials == sorted(unique_serials(f))
        valid       == SelectSeq(selected, LAMBDA s : s \in Range(all_serials))
        missing     == SelectSeq(selected, LAMBDA s : s \notin Range(all_serials))
        serials     == IF selected # <<>> THEN valid ELSE all_serials
        shown       == Mask(f, [k \in 1..Len(f) |->
                                    f[k].SerialID \in Range(serials)])
        df_top      == Mask(shown, [k \in 1..Len(shown) |->
                            notna(shown[k].X) /\ shown[k].X <= n])
        df_bot      == Mask(shown, [k \in 1..Len(shown) |->
                            notna(shown[k].X) /\ shown[k].X > n])
    IN  IF selected # <<>> /\ valid = <<>>
        THEN [fig     |-> px_line,
              label   |-> [text |-> "No valid serials selected", n |-> 0],
              warning |-> missing]
        ELSE [fig     |-> [kind   |-> "subplots",
                           traces |-> panel_traces(df_top, 1, serials, 1, m)
                                      \o panel_traces(df_bot, 2, serials, 1, m)],
              label   |-> IF selected # <<>>
                          THEN [text |-> "Comparing", n |-> Len(serials)]
                          ELSE [text |-> "All serials (latest run)", n |-> 0],
              warning |-> IF selected # <<>> THEN missing ELSE <<>>]

-----------------------------------------------------------------------------
(* The dashboard: the user's events and the callbacks they trigger. The     *)
(* page handles one event at a time: while update_plot is due, no other     *)
(* event is taken.                                                          *)

\* CSV rows uploaded to the dashboard: device A on channel 1, device B
\* (written with a trailing blank) with a channel that does not parse and no
\* RAW value, and a device whose identifier is a number, later in its run
DashRows ==
    {[SerialNumber |-> "A", Channel |-> "1", SampleCount |-> "1"] @@ Measured(1),
     [SerialNumber |-> "B ", Channel |-> "x", SampleCount |-> "2"] @@ Measured(NaN),
     [SerialNumber |-> "7", Channel |-> "1", SampleCount |-> "2"] @@ Measured(3)}

\* a CSV without one of the columns load_csv reads
Lacking(c) ==
    [columns |-> AllColumns \ {c},
     rows    |-> <<Without([SerialNumber |-> "A", Channel |-> "1",
                            SampleCount |-> "1"] @@ Measured(1), c)>>]

Uploads ==
    {[columns |-> AllColumns, rows |-> rows] :
        rows \in SeqUpTo(DashRows, MaxUploadRows)}
    \cup {Lacking("SerialNumber")}

\* the metrics the user switches between: one the rows measure, one they do not
MetricChoices == {"RAW", "HGO"}

\* the values the top-n input is set to: the default, and one that splits
\* the sample counts uploaded
TopNChoices == {1, 100}

\* the user drops a file on upload-csv: load_csv runs, and when it returns
\* the new data-store triggers update_plot
Upload(contents) ==
    /\ ~pending
    /\ \E unwritten \in Unwritten(contents) :
          \E out \in {load_csv(contents, unwritten)} :
              /\ data_store' = out.data
              /\ options' = out.options
              /\ disk' = out.file
              /\ upload' = [contents |-> contents, outcome |-> out.raised]
              /\ accepted' = IF out.raised = "none" THEN contents ELSE accepted
              /\ pending' = (out.raised = "none")
    /\ UNCHANGED <<compare_serials, metric, top_n, fig, label, warning,
                   stats_table, pipe_vars>>

\* the user adds one of the offered serials to compare-serials
Select(s) ==
    /\ ~pending
    /\ Len(compare_serials) < MaxSelected
    /\ s \in {options[i].value : i \in 1..Len(options)}
    /\ s \notin Range(compare_serials)
    /\ compare_serials' = Append(compare_serials, s)
    /\ pending' = TRUE
    /\ UNCHANGED <<data_store, options, disk, metric, top_n, fig, label,
                   warning, stats_table, upload, accepted, pipe_vars>>

\* the user removes the serial at position i of compare-serials
Deselect(i) ==
    /\ ~pending
    /\ i \in 1..Len(compare_serials)
    /\ compare_serials' = SubSeq(compare_serials, 1, i - 1)
                          \o SubSeq(compare_serials, i + 1, Len(compare_serials))
    /\ pending' = TRUE
    /\ UNCHANGED <<data_store, options, disk, metric, top_n, fig, label,
                   warning, stats_table, upload, accepted, pipe_vars>>

\* the user picks another metric
SetMetric(m) ==
    /\ ~pending
    /\ m # metric
    /\ metric' = m
    /\ pending' = TRUE
    /\ UNCHANGED <<data_store, options, disk, compare_serials, top_n, fig,
                   label, warning, stats_table, upload, accepted, pipe_vars>>

\* the user types another split threshold
SetTopN(n) ==
    /\ ~pending
    /\ n # top_n
    /\ top_n' = n
    /\ pending' = TRUE
    /\ UNCHANGED <<data_store, options, disk, compare_serials, metric, fig,
                   label, warning, stats_table, upload, accepted, pipe_vars>>

\* update_plot runs on the current inputs (first when the page loads)
Render ==
    /\ pending
    /\ \E out \in {update_plot(data_store, metric, compare_serials, top_n)} :
           /\ fig' = out.fig
           /\ label' = out.label
           /\ warning' = out.warning
    /\ pending' = FALSE
    /\ UNCHANGED <<data_store, options, disk, compare_serials, metric, top_n,
                   stats_table, upload, accepted, pipe_vars>>

Init == DashInit /\ PipeIdle

Next ==
    \/ \E contents \in Uploads : Upload(contents)
    \/ \E s \in DOMAIN Rank : Select(s)
    \/ \E i \in 1..MaxSelected : Deselect(i)
    \/ \E m \in MetricChoices : SetMetric(m)
    \/ \E n \in TopNChoices : SetTopN(n)
    \/ Render

Spec == Init /\ [][Next]_vars

-----------------------------------------------------------------------------
(* Properties of the helpers (specifications SpecRun and SpecFilter).       *)

\* a (device, channel) group as the data model has it: a missing channel is
\* a channel value of its own
same_key(a, b) == a.SerialID = b.SerialID /\ a.Channel = b.Channel

segmented == stage \in {"indexed", "latest", "twice"}
filtered == stage \in {"latest", "twice"}

\* the run index add_run_index gave the row uploaded at position i (from 1)
run_of(i) == LET r == CHOOSE r \in Range(df) : r.index = i - 1 IN r.RunIndex

example_uploaded ==
    /\ Len(raw.rows) = Len(ExampleX)
    /\ \A i \in 1..Len(ExampleX) :
          /\ raw.rows[i].SampleCount = ExampleX[i]
          /\ raw.rows[i].SerialNumber = raw.rows[1].SerialNumber
          /\ raw.rows[i].Channel = raw.rows[1].Channel

\* C1: for one device and one channel with x = 1,2,3,1,2 in upload order the
\* run indices are 0,0,0,1,1 and keep_latest_run_only retains exactly the last
\* two uploaded rows.
C1_ExampleRuns ==
    (example_uploaded /\ filtered) =>
        /\ <<run_of(1), run_of(2), run_of(3), run_of(4), run_of(5)>>
               = <<0, 0, 0, 1, 1>>
        /\ {r.index : r \in Range(latest)} = {3, 4}
        /\ Len(latest) = 2

\* C2: after add_run_index, in every (device, channel) group read in frame
\* order, the first row has run index 0 and every later row has the run index
\* of the row before it, plus 1 when x strictly decreased and plus 0 otherwise
\* (a missing difference is no decrease); every run index is a natural number.
C2_RunIndexRule ==
    segmented =>
        \A i \in 1..Len(df) :
            LET before == {j \in 1..(i - 1) : same_key(df[j], df[i])}
            IN  /\ df[i].RunIndex \in Nat
                /\ before = {} => df[i].RunIndex = 0
                /\ before # {} =>
                      LET p == Max(before)
                          fell == /\ notna(df[i].X) /\ notna(df[p].X)
                                  /\ df[i].X < df[p].X
                      IN  df[i].RunIndex
                              = df[p].RunIndex + (IF fell THEN 1 ELSE 0)

\* C3: for every (device, channel) group of the run-indexed frame, a missing
\* channel included, keep_latest_run_only keeps at least one row of the group,
\* only rows whose run index is the group's maximum, and all of those.
C3_LatestPerGroup ==
    filtered =>
        \A i \in 1..Len(df) :
            LET group == {r \in Range(df) : same_key(r, df[i])}
                top   == Max({r.RunIndex : r \in group})
                kept  == {r \in Range(latest) : same_key(r, df[i])}
            IN  /\ kept # {}
                /\ \A r \in kept : r.RunIndex = top
                /\ \A r \in group : r.RunIndex = top => r \in kept

\* C10: keep_latest_run_only is idempotent.
C10_Idempotent == stage = "twice" => twice = latest

\* keep_latest_run_only ran twice on a frame with an earlier run to drop, a
\* group it keeps and a row with a missing channel
C10_Witness ==
    /\ stage = "twice"
    /\ \E a, b \in Range(df) : same_group(a, b) /\ a.RunIndex < b.RunIndex
    /\ \E r \in Range(df) : dropped(r)
    /\ latest # <<>>
    /\ Len(latest) < Len(df)

-----------------------------------------------------------------------------
(* Properties of the dashboard (specification Spec).                        *)

\* update_plot has run on the inputs the state shows
rendered == ~pending

\* the frame update_plot plots from: the stored dataset read back and
\* reduced to the latest runs
plot_frame == keep_latest_run_only(read_json(data_store))

\* the device identifiers of the stored dataset
stored_serials == {data_store.data[i].SerialID : i \in 1..Len(data_store.data)}

\* the device a named trace is drawn for
named(t) == t.name # <<>>

\* C4: with a non-empty selection S over a dataset with device set D,
\* update_plot returns the empty figure, the "no valid" label and a warning
\* listing all of S when S and D are disjoint; otherwise the figure has traces
\* only for devices of both S and D and the warning lists exactly S \ D.
C4_SelectionPolicy ==
    (rendered /\ data_store.present /\ compare_serials # <<>>) =>
        LET S == compare_serials
            D == stored_serials
        IN  IF Range(S) \cap D = {}
            THEN /\ fig = px_line
                 /\ label.text = "No valid serials selected"
                 /\ warning = S
            ELSE /\ fig.kind = "subplots"
                 /\ \A k \in 1..Len(fig.traces) :
                       named(fig.traces[k]) =>
                           fig.traces[k].name[1] \in Range(S) \cap D
                 /\ warning = SelectSeq(S, LAMBDA s : s \notin D)

\* C5: an upload whose CSV has no SerialNumber column raises the validation
\* error and leaves data-store, the comparator's options and data.csv as they
\* were.
C5_RejectedUploadChangesNothing ==
    [][(upload' # upload /\ "SerialNumber" \notin upload'.contents.columns) =>
           /\ upload'.outcome = "ValueError"
           /\ data_store' = data_store
           /\ options' = options
           /\ disk' = disk]_vars

\* an upload was rejected for its missing column after another was accepted
C5_Witness ==
    /\ upload.outcome = "ValueError"
    /\ "SerialNumber" \notin upload.contents.columns
    /\ data_store.present
    /\ disk.exists
    /\ options # <<>>

\* C6: once an upload was accepted, data-store and data.csv both hold the
\* normalized, run-indexed rows of the latest accepted upload and no others,
\* the comparator's options are its device identifiers in ascending order, and
\* a render draws only from those rows.
C6_LastUploadWins ==
    accepted # NoCsv =>
        LET rows == accepted.rows
            ids  == {strip(rows[i].SerialNumber) : i \in 1..Len(rows)}
            xs   == {to_numeric(rows[i].SampleCount) : i \in 1..Len(rows)}
        IN  /\ data_store.present
            /\ Len(data_store.data) = Len(rows)
            /\ Len(data_store.index) = Len(rows)
            /\ Range(data_store.index) = 0..(Len(rows) - 1)
            /\ \A k \in 1..Len(rows) :
                  LET src == rows[data_store.index[k] + 1]
                      r   == data_store.data[k]
                  IN  /\ r.SerialNumber = src.SerialNumber
                      /\ r.SerialID = strip(src.SerialNumber)
                      /\ r.Channel = to_numeric(src.Channel)
                      /\ r.SampleCount = to_numeric(src.SampleCount)
                      /\ r.X = r.SampleCount
                      /\ \A m \in Range(METRICS) : r[m] = src[m]
                      /\ "RunIndex" \in DOMAIN r
                      /\ ~dropped(r) => r.RunIndex \in Nat
            /\ disk.exists
            /\ disk.rows = data_store.data
            /\ Len(options) = Cardinality(ids)
            /\ \A i \in 1..Len(options) :
                  /\ options[i].value \in ids
                  /\ options[i].label = options[i].value
                  /\ \A j \in 1..(i - 1) :
                        Rank[options[j].value] < Rank[options[i].value]
            /\ rendered =>
                  \A k \in 1..Len(fig.traces) :
                      /\ Range(fig.traces[k].x) \subseteq xs
                      /\ named(fig.traces[k]) =>
                            \E s \in ids :
                                fig.traces[k].name[1]
                                    \in {s, infer_dtype({s}, s)}

\* a render after an upload that replaced an earlier one: the selection still
\* names a device only the earlier upload had
C6_Witness ==
    /\ rendered
    /\ accepted.rows # <<>>
    /\ \E s \in Range(compare_serials) : s \notin stored_serials
    /\ fig.traces # <<>>

\* C7: the summary table has exactly one row per (device, channel, metric)
\* with at least one observation in the latest-run data, and no other row.
C7_SummaryRows ==
    (rendered /\ data_store.present) =>
        LET combos == {<<r.SerialID, r.Channel, m>> :
                          r \in Range(plot_frame), m \in Range(METRICS)}
            seen   == {c \in combos :
                          \E r \in Range(plot_frame) :
                              /\ r.SerialID = c[1] /\ r.Channel = c[2]
                              /\ notna(r[c[3]])}
        IN  Len(stats_table) = Cardinality(seen)

\* the devices a render plots, in the order it plots them: the picked ones
\* that have rows to plot, as picked, or all that have, ascending
plotted ==
    IF compare_serials # <<>>
    THEN SelectSeq(compare_serials, LAMBDA s : s \in unique_serials(plot_frame))
    ELSE sorted(unique_serials(plot_frame))

\* the devices the comparison is over: the picked ones, or all
selected_set ==
    IF compare_serials # <<>> THEN Range(compare_serials)
    ELSE unique_serials(plot_frame)

palette(k) == COLOR_POOL[(k % Len(COLOR_POOL)) + 1]

\* C8 as stated: a plotted device's colour is the palette entry at its position
\* in the ascending order of the selected set, so it does not depend on the
\* order of the selection.
C8_ColourBySortedSelection ==
    (rendered /\ fig.kind = "subplots") =>
        \A k \in 1..Len(fig.traces) :
            named(fig.traces[k]) =>
                fig.traces[k].color
                    = palette(Cardinality({w \in selected_set :
                          Rank[w] < Rank[fig.traces[k].name[1]]}))

\* C8 as amended: a plotted device's colour is the palette entry at its
\* position among the devices the render plots, in the order it plots them
\* (the picked devices that have rows, as picked; all devices ascending when
\* none is picked); every trace of a device has that colour in both panels.
C8_ColourByPlottedPosition ==
    (rendered /\ fig.kind = "subplots") =>
        /\ \A k \in 1..Len(fig.traces) :
              named(fig.traces[k]) =>
                  \E i \in 1..Len(plotted) :
                      /\ plotted[i] = fig.traces[k].name[1]
                      /\ \A j \in 1..Len(plotted) : plotted[j] = plotted[i] => j = i
                      /\ fig.traces[k].color = palette(i - 1)
        /\ \A k \in 1..Len(fig.traces) :
              \E j \in 1..Len(fig.traces) :
                  /\ named(fig.traces[j])
                  /\ fig.traces[j].color = fig.traces[k].color
                  /\ fig.traces[j].row = fig.traces[k].row

\* two devices picked against their ascending order, both plotted
C8_Witness ==
    /\ rendered
    /\ fig.kind = "subplots"
    /\ Len(compare_serials) = 2
    /\ Rank[compare_serials[2]] < Rank[compare_serials[1]]
    /\ \A s \in Range(compare_serials) :
          \E k \in 1..Len(fig.traces) : fig.traces[k].name = <<s>>

\* the rows of device s the render puts in panel p
panel_rows(s, p) ==
    {r \in Range(plot_frame) :
        /\ r.SerialID = s
        /\ notna(r.X)
        /\ IF p = 1 THEN r.X <= top_n ELSE r.X > top_n}

\* the traces of panel p with the colour of the device plotted at position i
traces_of(i, p) ==
    {k \in 1..Len(fig.traces) :
        fig.traces[k].row = p /\ fig.traces[k].color = palette(i - 1)}

\* C9: for a device with exactly one row in a panel the figure has its raw
\* series and its mean line there and neither sigma line; for a device with no
\* row in a panel it has no trace there; sigma lines are drawn only from two
\* observations on, as a pair at mean + std and mean - std, out of the legend.
C9_Overlays ==
    (rendered /\ fig.kind = "subplots") =>
        /\ \A s \in Range(compare_serials) : \A k \in 1..Len(fig.traces) :
              (s \notin Range(plotted) /\ named(fig.traces[k])) =>
                  fig.traces[k].name[1] # s
        /\ \A i \in 1..Len(plotted) : \A p \in {1, 2} :
              LET rows  == panel_rows(plotted[i], p)
                  T     == traces_of(i, p)
                  solid == {k \in T : fig.traces[k].dash = "solid"}
                  means == {k \in T : fig.traces[k].dash = "dash"}
                  dots  == {k \in T : fig.traces[k].dash = "dot"}
              IN  /\ rows = {} => T = {}
                  /\ rows # {} =>
                        /\ Cardinality(solid) = 1
                        /\ Cardinality(means) = 1
                        /\ \A k \in solid : fig.traces[k].name = <<plotted[i]>>
                        /\ \A k \in means :
                              fig.traces[k].name = <<plotted[i], "(mean)">>
                  /\ Cardinality(rows) = 1 => dots = {}
                  /\ Cardinality(dots) \in {0, 2}
                  /\ dots # {} =>
                        /\ Cardinality(rows) >= 2
                        /\ {fig.traces[k].y[1].sigmas : k \in dots} = {1, -1}
                        /\ \A k \in dots : ~fig.traces[k].showlegend

\* a figure with a device that has exactly one row in the top panel and none
\* in the bottom one, drawn with its series and its mean line only
C9_Witness ==
    /\ rendered
    /\ fig.kind = "subplots"
    /\ \E i \in 1..Len(plotted) :
          /\ Cardinality(panel_rows(plotted[i], 1)) = 1
          /\ Cardinality(traces_of(i, 1)) = 2
          /\ panel_rows(plotted[i], 2) = {}

\* a figure with the pair of sigma lines of a device observed twice in a panel
SigmaPairDrawn ==
    /\ rendered
    /\ \E k \in 1..Len(fig.traces) : fig.traces[k].dash = "dot"

=============================================================================
